---- MODULE Spec2Model ----
(***************************************************************************)
(* Model of generate_synthetic_vn_real_estate.py: the row generator        *)
(* (generate_row, sometimes_empty) and the file appender                   *)
(* (append_synthetic_rows) together with the csv reader and writer it      *)
(* drives.                                                                 *)
(*                                                                         *)
(* A text (a file's content, a CSV field) is a sequence of tokens.  A      *)
(* token is one of the characters the CSV dialect treats specially (the    *)
(* delimiter, the quote character, carriage return, line feed), a decimal  *)
(* digit, the decimal point, or an opaque run of ordinary characters.      *)
(* The empty string is the empty sequence.  Vietnamese literals are        *)
(* written without diacritics.                                             *)
(***************************************************************************)
EXTENDS Integers, Sequences, FiniteSets, TLC

VARIABLES exists, content, before, count, pc, existing_header, new_rows,
          aligned_rows, stdout, opens, raised, returned, gen_calls

vars == <<exists, content, before, count, pc, existing_header, new_rows,
          aligned_rows, stdout, opens, raised, returned, gen_calls>>

-----------------------------------------------------------------------------
(* Bounds of the model. *)

\* largest --count argument tried (the smallest is -1)
MaxCount == 2
\* largest column count of a pre-existing header
MaxWidth == 13
\* largest number of data rows already in the target file
MaxOldRows == 1
\* random.gauss is drawn as mean + z * std_dev, z in -MaxZ..MaxZ
MaxZ == 4
\* random.uniform(a, b) is drawn as a + (b - a) * k / AreaSteps, k in 0..AreaSteps
AreaSteps == 2
\* random_element and randint draw among the first MaxPick candidates
MaxPick == 1

-----------------------------------------------------------------------------
(* Special characters of the CSV dialect (csv.excel). *)

COMMA  == ","
DQUOTE == "\""
CR     == "\r"
LF     == "\n"
DOT    == "."

Specials == {COMMA, DQUOTE, CR, LF}

Min(a, b) == IF a < b THEN a ELSE b
Max(a, b) == IF a > b THEN a ELSE b

\* Python's `x in list`
InList(x, list) == \E i \in 1..Len(list) : list[i] = x

RECURSIVE Concat(_)
\* "".join(texts)
Concat(texts) ==
    IF texts = <<>> THEN <<>> ELSE Head(texts) \o Concat(Tail(texts))

-----------------------------------------------------------------------------
(* Module-level tables, lines 22-35. *)

PROPERTY_TYPES == << <<"Can ho", COMMA, " chung cu">> >>

TRANSACTION_TYPES == << <<"Can ban">>, <<"Can thue">> >>

CITY == <<"Ho Chi Minh">>

DISTRICTS ==
    << <<"Quan 9">>, <<"Quan Tan Binh">>, <<"Quan Tan Phu">>, <<"Quan 7">>,
       <<"Quan 2">>, <<"Quan 11">>, <<"Quan Thu Duc">>, <<"Huyen Binh Chanh">>,
       <<"Quan Binh Tan">>, <<"Quan 12">>, <<"Quan 1">>, <<"Quan 3">> >>

DIRECTIONS ==
    << <<"Dong Bac">>, <<"Tay">>, <<"Nam">>, <<"Tay Bac">>, <<"Bac">>,
       <<"Tay Nam">>, <<"Dong">>, <<"Dong Nam">> >>

LEGAL_PAPERS == << <<"Da co so">>, <<"Dang cho so">>, <<>> >>

HEADER ==
    << <<"GIONG - LOAI">>, <<"GIONG - NHU CAU">>, <<"GIONG - TINH THANH">>,
       <<"QUAN HUYEN">>, <<"GIA - TRIEU DONG">>, <<"DIEN TICH - M2">>,
       <<"HUONG">>, <<"SO TANG">>, <<"SO PHONG">>, <<"SO TOILETS">>,
       <<"GIAY TO PHAP LY">> >>

\* generate_row's local table, lines 50-54
DISTRICT_PRICE_RANGE ==
    [cao   |-> << <<"Quan 1">>, <<"Quan 3">>, <<"Quan 4">>, <<"Quan 5">>,
                  <<"Quan Binh Thanh">>, <<"Quan Phu Nhuan">>, <<"Quan 10">> >>,
     trung |-> << <<"Quan 2">>, <<"Quan 7">>, <<"Quan Tan Binh">>,
                  <<"Quan Tan Phu">>, <<"Quan 11">>, <<"Quan 9">>,
                  <<"Quan Thu Duc">> >>,
     thap  |-> << <<"Quan 12">>, <<"Quan Binh Tan">>, <<"Huyen Binh Chanh">>,
                  <<"Huyen Nha Be">>, <<"Huyen Hoc Mon">> >>]

-----------------------------------------------------------------------------
(* Number formatting: str(int) and f"{x:.1f}". *)

Digits == <<"0", "1", "2", "3", "4", "5", "6", "7", "8", "9">>

RECURSIVE str(_)
\* str(n) for an int n >= 0: its decimal digits, most significant first
str(n) == IF n < 10 THEN <<Digits[n + 1]>>
          ELSE str(n \div 10) \o <<Digits[(n % 10) + 1]>>

\* f"{x:.1f}" for x >= 0 given in hundredths: rounded to tenths, one
\* fractional digit always present
format_1f(hundredths) ==
    LET tenths == (hundredths + 5) \div 10
    IN  str(tenths \div 10) \o <<DOT>> \o str(tenths % 10)

-----------------------------------------------------------------------------
(* csv.writer(f).writerow(row), excel dialect: QUOTE_MINIMAL, doublequote, *)
(* lineterminator "\r\n".                                                  *)

RECURSIVE double_quotes(_)
double_quotes(f) ==
    IF f = <<>> THEN <<>>
    ELSE (IF Head(f) = DQUOTE THEN <<DQUOTE, DQUOTE>> ELSE <<Head(f)>>)
         \o double_quotes(Tail(f))

needs_quoting(f) == \E i \in 1..Len(f) : f[i] \in Specials

\* join_append under QUOTE_NONE: the field is written as it is
join_append_unquoted(f) == f

join_append(f) ==
    IF needs_quoting(f) THEN <<DQUOTE>> \o double_quotes(f) \o <<DQUOTE>>
    ELSE f

RECURSIVE join_fields(_)
join_fields(row) ==
    IF row = <<>> THEN <<>>
    ELSE IF Len(row) = 1 THEN join_append(row[1])
    ELSE join_append(Head(row)) \o <<COMMA>> \o join_fields(Tail(row))

\* the record text without its line terminator
record_text(row) ==
    IF row = << <<>> >> THEN <<DQUOTE, DQUOTE>> ELSE join_fields(row)

writerow(row) == record_text(row) \o <<CR, LF>>

RECURSIVE writerows(_)
\* for row in rows: writer.writerow(row)
writerows(rows) ==
    IF rows = <<>> THEN <<>> ELSE writerow(Head(rows)) \o writerows(Tail(rows))

-----------------------------------------------------------------------------
(* csv.reader(f) over a file opened with newline='': the parser of the     *)
(* excel dialect (no escape character, doublequote, not strict).  A parser *)
(* is the record [state, fields, field, records]: the automaton's state,   *)
(* the fields saved so far, the field being collected and the records the  *)
(* reader has yielded.  EOL is the end-of-line marker the reader feeds the *)
(* automaton after the last character of each line it takes from the file. *)
(* A line holds nothing behind its terminator, so the automaton never      *)
(* leaves EAT_CRNL for ERROR on a text read line by line.                  *)

EOL == "<EOL>"

parse_reset ==
    [state |-> "START_RECORD", fields |-> <<>>, field |-> <<>>, records |-> <<>>]

parse_save_field(p) ==
    [p EXCEPT !.fields = Append(p.fields, p.field), !.field = <<>>]

parse_add_char(p, c) == [p EXCEPT !.field = Append(p.field, c)]

after_newline(c) == IF c = EOL THEN "START_RECORD" ELSE "EAT_CRNL"

start_field(p, c) ==
    IF c \in {LF, CR, EOL}
    THEN [parse_save_field(p) EXCEPT !.state = after_newline(c)]
    ELSE IF c = DQUOTE THEN [p EXCEPT !.state = "IN_QUOTED_FIELD"]
    ELSE IF c = COMMA THEN [parse_save_field(p) EXCEPT !.state = "START_FIELD"]
    ELSE [parse_add_char(p, c) EXCEPT !.state = "IN_FIELD"]

parse_process_char(p, c) ==
    CASE p.state = "START_RECORD" ->
            IF c = EOL THEN p
            ELSE IF c \in {LF, CR} THEN [p EXCEPT !.state = "EAT_CRNL"]
            ELSE start_field(p, c)
      [] p.state = "START_FIELD" -> start_field(p, c)
      [] p.state = "IN_FIELD" ->
            IF c \in {LF, CR, EOL}
            THEN [parse_save_field(p) EXCEPT !.state = after_newline(c)]
            ELSE IF c = COMMA
            THEN [parse_save_field(p) EXCEPT !.state = "START_FIELD"]
            ELSE parse_add_char(p, c)
      [] p.state = "IN_QUOTED_FIELD" ->
            IF c = EOL THEN p
            ELSE IF c = DQUOTE
            THEN [p EXCEPT !.state = "QUOTE_IN_QUOTED_FIELD"]
            ELSE parse_add_char(p, c)
      [] p.state = "QUOTE_IN_QUOTED_FIELD" ->
            IF c = DQUOTE
            THEN [parse_add_char(p, c) EXCEPT !.state = "IN_QUOTED_FIELD"]
            ELSE IF c = COMMA
            THEN [parse_save_field(p) EXCEPT !.state = "START_FIELD"]
            ELSE IF c \in {LF, CR, EOL}
            THEN [parse_save_field(p) EXCEPT !.state = after_newline(c)]
            ELSE [parse_add_char(p, c) EXCEPT !.state = "IN_FIELD"]
      [] p.state = "EAT_CRNL" ->
            IF c = EOL THEN [p EXCEPT !.state = "START_RECORD"]
            ELSE IF c \in {LF, CR} THEN p
            ELSE \* "new-line character seen in unquoted field"
                 [p EXCEPT !.state = "ERROR"]
      [] OTHER -> p

\* the file iterator ends a line after "\n", after a "\r" that no "\n"
\* follows, and at the end of the file
ends_line(text, i) ==
    \/ i = Len(text)
    \/ text[i] = LF
    \/ text[i] = CR /\ text[i + 1] # LF

\* Reader_iternext's loop test after a line: back in START_RECORD the
\* record is complete and yielded, otherwise the next line continues it
yield_record(p) ==
    IF p.state = "START_RECORD"
    THEN [p EXCEPT !.records = Append(p.records, p.fields), !.fields = <<>>]
    ELSE p

\* the reader consumes character i of the text
feed_char(p, text, i) ==
    LET p1 == parse_process_char(p, text[i])
    IN  IF ends_line(text, i) THEN yield_record(parse_process_char(p1, EOL))
        ELSE p1

RECURSIVE feed(_, _, _, _)
\* the reader consumes characters lo..hi of the text, in order; once the
\* parser has raised csv.Error nothing more is consumed
feed(p, text, lo, hi) ==
    IF lo > hi THEN p
    ELSE IF lo = hi THEN feed_char(p, text, lo)
    ELSE LET mid == (lo + hi) \div 2
             q   == feed(p, text, lo, mid)
         IN  IF q.state = "ERROR" THEN q ELSE feed(q, text, mid + 1, hi)

\* Reader_iternext when the file has no more lines: a field under
\* collection or an open quoted field still makes a record
end_of_file(p) ==
    IF Len(p.field) # 0 \/ p.state = "IN_QUOTED_FIELD"
    THEN Append(p.records, parse_save_field(p).fields)
    ELSE p.records

\* list(csv.reader(f)): every record of the text
csv_reader(text) == end_of_file(feed(parse_reset, text, 1, Len(text)))

\* next(reader) on a fresh reader: [stop, fields], stop being StopIteration
next(text) ==
    LET records == csv_reader(text)
    IN  IF records = <<>> THEN [stop |-> TRUE, fields |-> <<>>]
        ELSE [stop |-> FALSE, fields |-> records[1]]

-----------------------------------------------------------------------------
(* The row generator, lines 38-87.  The ambient random state is the        *)
(* record d of what the random calls return during one generate_row call:  *)
(*   u_*       random.random() inside sometimes_empty or the `need` test,  *)
(*             in hundredths                                               *)
(*   *_idx     the index random.choice / random_element picks              *)
(*   z         the standard normal deviate behind random.gauss             *)
(*   area_k    random.uniform's fraction, k / AreaSteps                    *)
(*   rooms, toilets   what random.randint returns                          *)

\* sometimes_empty(value_func, empty_prob), u = random.random()
sometimes_empty(value, u, empty_prob) ==
    IF u < empty_prob THEN <<>> ELSE value

\* lines 56-61: (price_min, price_max) of the district
price_range(district) ==
    IF InList(district, DISTRICT_PRICE_RANGE.cao) THEN <<3500, 8000>>
    ELSE IF InList(district, DISTRICT_PRICE_RANGE.trung) THEN <<2000, 6000>>
    ELSE <<1000, 4000>>

\* lines 63-67, in sixths of a million dong: mean = (min + max) / 2 and
\* std_dev = (max - min) / 6 are both whole numbers of sixths
random_price(price_min, price_max, z) ==
    LET mean    == 3 * (price_min + price_max)
        std_dev == price_max - price_min
        gauss   == mean + z * std_dev
        val     == Max(6 * price_min, Min(6 * price_max, gauss))
    IN  val \div 6

\* the area bounds with the second test looking at the wrong tier
area_range_wrong_tier(district) ==
    IF InList(district, DISTRICT_PRICE_RANGE.cao) THEN <<25, 90>>
    ELSE IF InList(district, DISTRICT_PRICE_RANGE.thap) THEN <<40, 120>>
    ELSE <<50, 150>>

\* lines 72-77: the bounds of random.uniform for the district
area_range(district) ==
    IF InList(district, DISTRICT_PRICE_RANGE.cao) THEN <<25, 90>>
    ELSE IF InList(district, DISTRICT_PRICE_RANGE.trung) THEN <<40, 120>>
    ELSE <<50, 150>>

\* random.uniform(a, b) = a + (b - a) * random.random(), in hundredths
uniform(a, b, k) == 100 * a + (100 * (b - a) * k) \div AreaSteps

\* generate_row with the floor count sampled like the room count
generate_row_with_floors(d) ==
    LET district == DISTRICTS[d.district_idx]
        pr       == price_range(district)
        ar       == area_range(district)
    IN  <<PROPERTY_TYPES[d.prop_idx],
          IF d.u_need < 95 THEN <<"Can ban">> ELSE TRANSACTION_TYPES[d.need_idx],
          CITY, district,
          sometimes_empty(str(random_price(pr[1], pr[2], d.z)), d.u_price, 3),
          sometimes_empty(format_1f(uniform(ar[1], ar[2], d.area_k)), d.u_area, 5),
          sometimes_empty(DIRECTIONS[d.dir_idx], d.u_dir, 40),
          sometimes_empty(str(d.rooms), d.u_rooms, 12),
          sometimes_empty(str(d.rooms), d.u_rooms, 12),
          sometimes_empty(str(d.toilets), d.u_toilets, 12),
          sometimes_empty(LEGAL_PAPERS[d.legal_idx], d.u_legal, 25)>>

generate_row(d) ==
    LET prop_type == PROPERTY_TYPES[d.prop_idx]
        need      == IF d.u_need < 95 THEN <<"Can ban">>
                     ELSE TRANSACTION_TYPES[d.need_idx]
        province  == CITY
        district  == DISTRICTS[d.district_idx]
        pr        == price_range(district)
        price     == sometimes_empty(str(random_price(pr[1], pr[2], d.z)),
                                     d.u_price, 3)
        ar        == area_range(district)
        area_val  == uniform(ar[1], ar[2], d.area_k)
        area      == sometimes_empty(format_1f(area_val), d.u_area, 5)
        direction == sometimes_empty(DIRECTIONS[d.dir_idx], d.u_dir, 40)
        floors    == <<>>
        rooms     == sometimes_empty(str(d.rooms), d.u_rooms, 12)
        toilets   == sometimes_empty(str(d.toilets), d.u_toilets, 12)
        legal     == sometimes_empty(LEGAL_PAPERS[d.legal_idx], d.u_legal, 25)
    IN  <<prop_type, need, province, district, price, area, direction,
          floors, rooms, toilets, legal>>

\* what random.random() returns, in hundredths: below every threshold of
\* the generator, and at or above every one of them
URandom == {0, 99}

\* a candidate index random.choice / random_element may return
Picks(list) == 1..Min(Len(list), MaxPick)

\* The draws of one sometimes_empty(value_func, p) call: value_func draws
\* only when random.random() >= p.
FieldDraws(p, values) ==
    {<<u, v>> : u \in {x \in URandom : x >= p}, v \in values}
        \cup {<<u, 0>> : u \in {x \in URandom : x < p}}

\* every outcome of the random calls of one generate_row call
Draws ==
    {[prop_idx |-> 1, u_need |-> n[1], need_idx |-> IF n[2] = 0 THEN 1 ELSE n[2],
      district_idx |-> di,
      u_price |-> p[1], z |-> p[2],
      u_area |-> ua, area_k |-> k,
      u_dir |-> dr[1], dir_idx |-> IF dr[2] = 0 THEN 1 ELSE dr[2],
      u_rooms |-> r[1], rooms |-> IF r[2] = 0 THEN 1 ELSE r[2],
      u_toilets |-> t[1], toilets |-> IF t[2] = 0 THEN 1 ELSE t[2],
      u_legal |-> l[1], legal_idx |-> IF l[2] = 0 THEN 1 ELSE l[2]] :
        n  \in FieldDraws(95, 1..Len(TRANSACTION_TYPES)),
        di \in 1..Len(DISTRICTS),
        p  \in FieldDraws(3, (0 - MaxZ)..MaxZ),
        ua \in URandom, k \in 0..AreaSteps,
        dr \in FieldDraws(40, Picks(DIRECTIONS)),
        r  \in FieldDraws(12, 1..Min(4, MaxPick)),
        t  \in FieldDraws(12, 1..Min(3, MaxPick)),
        l  \in FieldDraws(25, Picks(LEGAL_PAPERS))}

\* The draws the appender's runs take: every sometimes_empty call empties
\* its field (u = 0) or none does (u = 99), the median price, the smallest
\* area, the first candidate of every list.
SampleDraws ==
    {[prop_idx |-> 1, u_need |-> u, need_idx |-> n, district_idx |-> 1,
      u_price |-> u, z |-> 0, u_area |-> u, area_k |-> 0,
      u_dir |-> u, dir_idx |-> 1, u_rooms |-> u, rooms |-> 1,
      u_toilets |-> u, toilets |-> 1, u_legal |-> u, legal_idx |-> 1] :
        u \in URandom, n \in 1..Len(TRANSACTION_TYPES)}

-----------------------------------------------------------------------------
(* The target files the appender is run on.                                *)

\* the alignment loop without its elif branch
align_pad_only(r, n) ==
    IF Len(r) < n THEN r \o [i \in 1..(n - Len(r)) |-> <<>>] ELSE r

\* lines 128-135: one iteration of the alignment loop, n = len(existing_header)
align(r, n) ==
    IF Len(r) < n THEN r \o [i \in 1..(n - Len(r)) |-> <<>>]
    ELSE IF Len(r) > n THEN SubSeq(r, 1, n)
    ELSE r

\* a header of w columns: the generator's names, other names of the same
\* shape, or a first name that holds the delimiter (and is therefore quoted
\* in the file)
HeaderStyles == {"generator", "renamed", "quoted"}

HeaderOf(w, style) ==
    [i \in 1..w |->
        IF style = "renamed" THEN <<"COT">>
        ELSE IF style = "quoted" /\ i = 1 THEN <<"LOAI", COMMA, " NHOM">>
        ELSE IF i <= Len(HEADER) THEN HEADER[i]
        ELSE <<"THEM">>]

\* a data row an earlier run of the program appended under a w-column header
OldRow(w) == align(generate_row(CHOOSE d \in SampleDraws : d.u_need = 99 /\ d.need_idx = 1), w)

\* how the last line of a file may end
LineEnds == {<<CR, LF>>, <<LF>>, <<>>}

HeaderFile(w, style, nOld, end) ==
    record_text(HeaderOf(w, style))
        \o Concat([i \in 1..nOld |-> <<CR, LF>> \o record_text(OldRow(w))])
        \o end

TargetFiles ==
    {<<>>, <<CR, LF>>, <<LF>> \o writerow(HEADER)}
        \cup {HeaderFile(w, style, nOld, end) :
                w \in 1..MaxWidth, style \in HeaderStyles,
                nOld \in 0..MaxOldRows, end \in LineEnds}

-----------------------------------------------------------------------------
(* append_synthetic_rows(target_path, count), lines 102-145.               *)
(*   exists, content   the file at target_path                             *)
(*   before            the file's content when the call was made           *)
(*   opens             the modes of the open() calls made so far           *)
(*   stdout            what print() has written                            *)
(*   raised, returned  how the call ended                                  *)
(*   gen_calls         the number of generate_row() calls made             *)

Message(m, n, hdr) == [msg |-> m, n |-> n, header |-> hdr]

Init ==
    /\ exists \in BOOLEAN
    /\ content \in (IF exists THEN TargetFiles ELSE {<<>>})
    /\ before = content
    /\ count \in (0 - 1)..MaxCount
    /\ pc = "start"
    /\ existing_header = <<>>
    /\ new_rows = <<>>
    /\ aligned_rows = <<>>
    /\ stdout = <<>>
    /\ opens = <<>>
    /\ raised = "none"
    /\ returned = <<"pending", 0>>
    /\ gen_calls = 0

\* CheckExists without its test: the call goes on to open the path
CheckExistsNoTest ==
    /\ pc = "start"
    /\ pc' = "read_header"
    /\ UNCHANGED <<exists, content, before, count, existing_header, new_rows,
                   aligned_rows, stdout, opens, raised, returned, gen_calls>>

\* lines 103-105
CheckExists ==
    /\ pc = "start"
    /\ IF ~exists
       THEN /\ raised' = "FileNotFoundError"
            /\ pc' = "raised"
       ELSE /\ raised' = raised
            /\ pc' = "read_header"
    /\ UNCHANGED <<exists, content, before, count, existing_header, new_rows,
                   aligned_rows, stdout, opens, returned, gen_calls>>

\* ReadHeader without lines 115-117: an empty header stays empty
ReadHeaderNoFallback ==
    /\ pc = "read_header"
    /\ opens' = Append(opens, "r")
    /\ IF ~exists
       THEN /\ raised' = "FileNotFoundError"
            /\ pc' = "raised"
            /\ UNCHANGED existing_header
       ELSE /\ LET r == next(content)
               IN  existing_header' = IF r.stop THEN <<>> ELSE r.fields
            /\ pc' = "check_header"
            /\ UNCHANGED raised
    /\ UNCHANGED <<exists, content, before, count, new_rows, aligned_rows,
                   stdout, returned, gen_calls>>

\* lines 107-117; open(target_path, 'r') fails on a missing file
ReadHeader ==
    /\ pc = "read_header"
    /\ opens' = Append(opens, "r")
    /\ IF ~exists
       THEN /\ raised' = "FileNotFoundError"
            /\ pc' = "raised"
            /\ UNCHANGED existing_header
       ELSE /\ LET r      == next(content)
                   header == IF r.stop THEN <<>> ELSE r.fields
               IN  existing_header' = IF header = <<>> THEN HEADER ELSE header
            /\ pc' = "check_header"
            /\ UNCHANGED raised
    /\ UNCHANGED <<exists, content, before, count, new_rows, aligned_rows,
                   stdout, returned, gen_calls>>

\* WarnHeader comparing the headers themselves instead of their lengths
WarnHeaderByNames ==
    /\ pc = "check_header"
    /\ stdout' =
          IF existing_header # HEADER
          THEN stdout \o
               <<Message("Warning: existing CSV header length differs from generator header.",
                         0, <<>>),
                 Message("Existing header", Len(existing_header), existing_header),
                 Message("Generator header", Len(HEADER), HEADER)>>
          ELSE stdout
    /\ pc' = "generate"
    /\ UNCHANGED <<exists, content, before, count, existing_header, new_rows,
                   aligned_rows, opens, raised, returned, gen_calls>>

\* lines 119-123
WarnHeader ==
    /\ pc = "check_header"
    /\ stdout' =
          IF Len(existing_header) # Len(HEADER)
          THEN stdout \o
               <<Message("Warning: existing CSV header length differs from generator header.",
                         0, <<>>),
                 Message("Existing header", Len(existing_header), existing_header),
                 Message("Generator header", Len(HEADER), HEADER)>>
          ELSE stdout
    /\ pc' = "generate"
    /\ UNCHANGED <<exists, content, before, count, existing_header, new_rows,
                   aligned_rows, opens, raised, returned, gen_calls>>

\* the comprehension over range(count + 1)
GenerateRowOnceMore ==
    /\ pc = "generate"
    /\ Len(new_rows) <= count
    /\ \E d \in SampleDraws : new_rows' = Append(new_rows, generate_row(d))
    /\ gen_calls' = gen_calls + 1
    /\ UNCHANGED <<exists, content, before, count, pc, existing_header,
                   aligned_rows, stdout, opens, raised, returned>>

\* line 126: one iteration of the comprehension over range(count)
GenerateRow ==
    /\ pc = "generate"
    /\ Len(new_rows) < count
    /\ \E d \in SampleDraws : new_rows' = Append(new_rows, generate_row(d))
    /\ gen_calls' = gen_calls + 1
    /\ UNCHANGED <<exists, content, before, count, pc, existing_header,
                   aligned_rows, stdout, opens, raised, returned>>

\* lines 128-135, once range(count) is exhausted
AlignRows ==
    /\ pc = "generate"
    /\ Len(new_rows) >= count
    /\ aligned_rows' =
          [i \in 1..Len(new_rows) |-> align(new_rows[i], Len(existing_header))]
    /\ pc' = "write"
    /\ UNCHANGED <<exists, content, before, count, existing_header, new_rows,
                   stdout, opens, raised, returned, gen_calls>>

\* the same writes through open(target_path, 'w')
append_to_truncated(text, rows) == writerows(rows)

\* open(target_path, 'a') followed by the writes of lines 142-143
append_to(text, rows) == text \o writerows(rows)

\* lines 137-143; open(target_path, 'a') creates a missing file
WriteRows ==
    /\ pc = "write"
    /\ opens' = Append(opens, "a")
    /\ exists' = TRUE
    /\ content' = append_to(content, aligned_rows)
    /\ pc' = "report"
    /\ UNCHANGED <<before, count, existing_header, new_rows, aligned_rows,
                   stdout, raised, returned, gen_calls>>

\* what the call returns: the function has no return statement
return_value(rows) == <<"None", 0>>

\* line 145 and the return to the caller
Report ==
    /\ pc = "report"
    /\ stdout' = Append(stdout, Message("Appended", Len(aligned_rows), <<>>))
    /\ returned' = return_value(aligned_rows)
    /\ pc' = "done"
    /\ UNCHANGED <<exists, content, before, count, existing_header, new_rows,
                   aligned_rows, opens, raised, gen_calls>>

Next ==
    \/ CheckExists
    \/ ReadHeader
    \/ WarnHeader
    \/ GenerateRow
    \/ AlignRows
    \/ WriteRows
    \/ Report

Spec == Init /\ [][Next]_vars

-----------------------------------------------------------------------------
(* generate_row() called once, over every outcome of its random calls.     *)

InitGen ==
    /\ exists = FALSE
    /\ content = <<>>
    /\ before = <<>>
    /\ count = 1
    /\ pc = "call"
    /\ existing_header = <<>>
    /\ new_rows = <<>>
    /\ aligned_rows = <<>>
    /\ stdout = <<>>
    /\ opens = <<>>
    /\ raised = "none"
    /\ returned = <<"pending", 0>>
    /\ gen_calls = 0

CallGenerateRow ==
    /\ pc = "call"
    /\ \E d \in Draws : new_rows' = <<generate_row(d)>>
    /\ gen_calls' = gen_calls + 1
    /\ pc' = "returned"
    /\ UNCHANGED <<exists, content, before, count, existing_header,
                   aligned_rows, stdout, opens, raised, returned>>

NextGen == CallGenerateRow

SpecGen == InitGen /\ [][NextGen]_vars

-----------------------------------------------------------------------------
(* Vocabulary of the properties.                                           *)

IsPrefix(a, b) == Len(a) <= Len(b) /\ SubSeq(b, 1, Len(a)) = a

\* what the call has added behind the content it found
appended_text == SubSeq(content, Len(before) + 1, Len(content))

\* the content the call found is empty or ends with a line terminator
Terminated(text) == text = <<>> \/ text[Len(text)] \in {CR, LF}

\* the header-mismatch diagnostic is on stdout
Warned ==
    \E i \in 1..Len(stdout) :
        stdout[i].msg = "Warning: existing CSV header length differs from generator header."

\* the numbers the confirmation messages on stdout carry
IsConfirmation(m) == m.msg = "Appended"

Reported ==
    LET confirmations == SelectSeq(stdout, IsConfirmation)
    IN  [i \in 1..Len(confirmations) |-> confirmations[i].n]

\* the file holds one record, of as many columns as the generator's header
HeaderOnly(text) ==
    LET recs == csv_reader(text)
    IN  Len(recs) = 1 /\ Len(recs[1]) = Len(HEADER)

\* the number of rows range(count) yields
RowsFor(n) == IF n < 0 THEN 0 ELSE n

-----------------------------------------------------------------------------
\* C1: called on a path that names no file, for every count, the call ends
\* in FileNotFoundError with no row generated, no open() attempted and
\* nothing printed, and the path still names no file afterwards.
C1_MissingFileFailsFast ==
    /\ (~exists =>
          /\ pc \in {"start", "raised"}
          /\ opens = <<>>
          /\ gen_calls = 0
          /\ new_rows = <<>>
          /\ content = before)
    /\ (pc = "raised" =>
          /\ ~exists
          /\ raised = "FileNotFoundError"
          /\ returned[1] = "pending")

C1_Witness == pc = "raised" /\ ~exists /\ count = MaxCount

\* C2 (as claimed): on a file that holds only an 11-column header, a
\* finished append with count = n >= 0 leaves exactly 1 + n records: the
\* original header first and once only, then the n generated records.
C2_HeaderOnlyFileGetsOnePlusN ==
    (pc = "done" /\ count >= 0 /\ HeaderOnly(before)) =>
        LET recs == csv_reader(content)
            hdr  == csv_reader(before)[1]
        IN  /\ Len(recs) = 1 + count
            /\ recs[1] = hdr
            /\ \A i \in 1..count : recs[i + 1] = new_rows[i]
            /\ Cardinality({i \in 1..Len(recs) : recs[i] = hdr}) = 1

\* C3: under an existing header of 8 columns every generated record is cut
\* to its first 8 fields, and the text appended reads back as exactly those
\* records, 8 fields each; behind a terminated file they are the file's
\* last records.
C3_EightColumnHeaderTruncates ==
    (pc = "done" /\ Len(csv_reader(before)) > 0 /\ Len(csv_reader(before)[1]) = 8) =>
        /\ Len(aligned_rows) = Len(new_rows)
        /\ \A i \in 1..Len(new_rows) : aligned_rows[i] = SubSeq(new_rows[i], 1, 8)
        /\ csv_reader(appended_text) = aligned_rows
        /\ \A i \in 1..Len(csv_reader(appended_text)) :
              Len(csv_reader(appended_text)[i]) = 8
        /\ (Terminated(before) =>
              csv_reader(content) = csv_reader(before) \o aligned_rows)

C3_Witness ==
    /\ pc = "done"
    /\ count = MaxCount
    /\ Len(existing_header) = 8
    /\ existing_header[1] = <<"LOAI", COMMA, " NHOM">>
    /\ Len(csv_reader(before)) > 1

\* C4: the call only appends.  The content it found stays a prefix of the
\* file in every state; when it is done the file is that content followed
\* by the aligned rows as written by the csv writer, one record per
\* generated row and no header record among them; every record the file
\* held is still there, in place and unchanged (the last one provided its
\* line was terminated).
C4_AppendOnly ==
    /\ IsPrefix(before, content)
    /\ (pc \notin {"report", "done"} => content = before)
    /\ (pc = "done" =>
          /\ content = before \o writerows(aligned_rows)
          /\ Len(csv_reader(appended_text)) = Len(new_rows)
          /\ LET old == csv_reader(before)
                 now == csv_reader(content)
             IN  /\ Len(now) >= Len(old)
                 /\ \A i \in 1..Len(old) :
                       (i < Len(old) \/ Terminated(before)) => now[i] = old[i])

C4_Witness ==
    /\ pc = "done"
    /\ count = MaxCount
    /\ Len(csv_reader(before)) = 1 + MaxOldRows
    /\ Terminated(before)

\* C5 (as claimed): a finished call returns the integer number of rows
\* appended, and that number is count: count generate_row() calls, count
\* records written, the reported number equal to the records written.
C5_ReturnsCount ==
    pc = "done" =>
        /\ returned = <<"int", count>>
        /\ gen_calls = count
        /\ Len(csv_reader(appended_text)) = count

\* C5 (amended): a finished call returns nothing; it prints exactly one
\* confirmation, and the number in it is the number of records written and
\* the number of generate_row() calls made: count when count >= 0, and 0
\* when count is negative.
C5_ReportsRowsAppended ==
    pc = "done" =>
        /\ returned = <<"None", 0>>
        /\ Reported = <<RowsFor(count)>>
        /\ gen_calls = RowsFor(count)
        /\ Len(new_rows) = RowsFor(count)
        /\ Len(csv_reader(appended_text)) = RowsFor(count)

C5_Witness ==
    /\ pc = "done"
    /\ count = MaxCount
    /\ gen_calls = MaxCount
    /\ Reported = <<MaxCount>>

\* C6: every record generate_row() returns has exactly 11 fields, each a
\* string (possibly empty), and its 8th field is the empty string.
C6_ElevenStringFields ==
    pc = "returned" =>
        LET row == new_rows[1]
        IN  /\ Len(row) = 11
            /\ \A i \in 1..Len(row) : row[i] \in Seq(STRING)
            /\ row[8] = <<>>

C6_Witness ==
    /\ pc = "returned"
    /\ new_rows[1][5] = <<>>
    /\ new_rows[1][7] # <<>>
    /\ new_rows[1][9] # <<>>
    /\ new_rows[1][11] = <<>>

\* the tier of a district and the bands claimed for each tier
TierOf(district) ==
    IF InList(district, DISTRICT_PRICE_RANGE.cao) THEN "high"
    ELSE IF InList(district, DISTRICT_PRICE_RANGE.trung) THEN "medium"
    ELSE "low"

PriceBand == [high   |-> <<3500, 8000>>,
              medium |-> <<2000, 6000>>,
              low    |-> <<1000, 4000>>]

AreaBand == [high   |-> <<25, 90>>,
             medium |-> <<40, 120>>,
             low    |-> <<50, 150>>]

IsDigits(f) == Len(f) > 0 /\ \A i \in 1..Len(f) : InList(f[i], Digits)

DigitValue(c) == CHOOSE v \in 0..9 : Digits[v + 1] = c

RECURSIVE ToInt(_)
\* int(f) for a string of decimal digits
ToInt(f) ==
    IF Len(f) = 1 THEN DigitValue(f[1])
    ELSE 10 * ToInt(SubSeq(f, 1, Len(f) - 1)) + DigitValue(f[Len(f)])

\* f is digits, the decimal point and exactly one fractional digit
IsOneDecimal(f) ==
    /\ Len(f) >= 3
    /\ f[Len(f) - 1] = DOT
    /\ IsDigits(SubSeq(f, 1, Len(f) - 2))
    /\ IsDigits(<<f[Len(f)]>>)

\* the value of such a string, in tenths
ToTenths(f) == 10 * ToInt(SubSeq(f, 1, Len(f) - 2)) + DigitValue(f[Len(f)])

\* C7: in every record generate_row() returns, a non-empty price is an
\* integer within the price band of the tier of the record's own district,
\* and a non-empty area is a one-decimal number within the area band of
\* that same tier.
C7_PriceAndAreaFollowDistrictTier ==
    pc = "returned" =>
        LET row   == new_rows[1]
            tier  == TierOf(row[4])
            price == row[5]
            area  == row[6]
        IN  /\ InList(row[4], DISTRICTS)
            /\ (price # <<>> =>
                  /\ IsDigits(price)
                  /\ ToInt(price) >= PriceBand[tier][1]
                  /\ ToInt(price) <= PriceBand[tier][2])
            /\ (area # <<>> =>
                  /\ IsOneDecimal(area)
                  /\ ToTenths(area) >= 10 * AreaBand[tier][1]
                  /\ ToTenths(area) <= 10 * AreaBand[tier][2])

C7_Witness ==
    /\ pc = "returned"
    /\ new_rows[1][4] = <<"Quan 1">>
    /\ new_rows[1][5] = <<"8", "0", "0", "0">>
    /\ new_rows[1][6] = <<"9", "0", DOT, "0">>

\* C8 (as claimed): the header-mismatch diagnostic is printed exactly when
\* the effective header does not have 11 columns; it is never an error;
\* with or without it, and also under 11 columns of other names, the call
\* finishes with count rows appended.
C8_WarningIffLengthDiffers ==
    /\ (pc \in {"generate", "write", "report", "done"} =>
          (Warned <=> Len(existing_header) # 11))
    /\ (exists => raised = "none")
    /\ (pc = "done" => Len(csv_reader(appended_text)) = count)

\* C8 (amended): as claimed, except that the rows appended number count
\* when count >= 0 and none when count is negative.
C8_WarningIffLengthDiffersRows ==
    /\ (pc \in {"start", "read_header", "check_header"} => ~Warned)
    /\ (pc \in {"generate", "write", "report", "done"} =>
          (Warned <=> Len(existing_header) # 11))
    /\ (exists => raised = "none")
    /\ (pc = "done" =>
          /\ Len(csv_reader(appended_text)) = RowsFor(count)
          /\ csv_reader(appended_text) = aligned_rows)

C8_Witness ==
    /\ pc = "done"
    /\ count = MaxCount
    /\ ~Warned
    /\ existing_header # HEADER
    /\ Len(csv_reader(appended_text)) = MaxCount

\* a second reachable case of C8: the diagnostic was printed and the call
\* finished all the same
C8_WarnedAndDone ==
    pc = "done" /\ Warned /\ count = MaxCount /\ Len(existing_header) > 11

\* C9: every aligned record has exactly w = len(existing_header) fields;
\* field j of it is field j of the generated record for j <= len(r) and
\* the empty string beyond; aligning it again changes nothing.
C9_AlignPadsOrTruncates ==
    pc \in {"write", "report", "done"} =>
        /\ Len(aligned_rows) = Len(new_rows)
        /\ \A i \in 1..Len(new_rows) :
              LET r == new_rows[i]
                  a == aligned_rows[i]
                  w == Len(existing_header)
              IN  /\ Len(a) = w
                  /\ \A j \in 1..w : a[j] = IF j <= Len(r) THEN r[j] ELSE <<>>
                  /\ (w = Len(r) => a = r)
                  /\ align(a, w) = a

C9_Witness ==
    /\ pc = "write"
    /\ Len(existing_header) = MaxWidth
    /\ Len(aligned_rows) = MaxCount
    /\ aligned_rows[1][9] # <<>>

\* a second reachable case of C9: a header narrower than the record
C9_TruncatedWitness ==
    pc = "write" /\ Len(existing_header) = 1 /\ Len(aligned_rows) = MaxCount

\* the file the call found is empty, or its first record has no fields
NoHeader(text) == text = <<>> \/ csv_reader(text)[1] = <<>>

\* C10 (as claimed): on an empty file, or one whose first record has no
\* fields, the generator's HEADER is the effective header, no diagnostic is
\* printed, every record appended has 11 fields, and the file ends up as
\* its previous content followed by the count data rows, with no header.
C10_FallsBackToGeneratorHeader ==
    (exists /\ NoHeader(before)) =>
        /\ (pc \notin {"start", "read_header"} => existing_header = HEADER)
        /\ ~Warned
        /\ (pc = "done" =>
              /\ Len(aligned_rows) = count
              /\ \A i \in 1..Len(aligned_rows) : Len(aligned_rows[i]) = 11
              /\ content = before \o writerows(aligned_rows)
              /\ csv_reader(appended_text) = new_rows)

\* C10 (amended): as claimed, except that the data rows number count when
\* count >= 0 and none when count is negative.
C10_FallsBackToGeneratorHeaderRows ==
    (exists /\ NoHeader(before)) =>
        /\ (pc \notin {"start", "read_header"} => existing_header = HEADER)
        /\ ~Warned
        /\ (pc = "done" =>
              /\ Len(aligned_rows) = RowsFor(count)
              /\ \A i \in 1..Len(aligned_rows) : Len(aligned_rows[i]) = 11
              /\ content = before \o writerows(aligned_rows)
              /\ csv_reader(appended_text) = new_rows)

C10_Witness ==
    /\ pc = "done"
    /\ before = <<>>
    /\ count = MaxCount
    /\ csv_reader(content) = new_rows

\* a second reachable case of C10: a file that begins with a blank line
C10_BlankLineWitness ==
    pc = "done" /\ before = <<CR, LF>> /\ count = MaxCount

====
